---------------------------- MODULE Spec2Model ----------------------------
(***************************************************************************)
(* Whisper transcription service (services/whisper/main.py).               *)
(*                                                                         *)
(* The service holds one process-wide model handle, loaded by the startup  *)
(* hook, and serves two handlers: GET /health and POST /transcribe.        *)
(*                                                                         *)
(* Conventions of the model                                                *)
(*   - a Python str that the code strips or joins is a sequence of         *)
(*     one-character strings, so that strip() and " ".join() are computed  *)
(*     and not assumed;                                                    *)
(*   - a float number of seconds is an integer number of ticks of 1/10000  *)
(*     second, so that round(x, 3) is a real rounding (to a multiple of    *)
(*     10 ticks, ties to even as Python's round());                        *)
(*   - an Optional value is a sequence of length 0 (None) or 1; an         *)
(*     Optional[str] is the string itself or the string "None";            *)
(*   - the inference engine (faster_whisper) is outside the repository:    *)
(*     what it yields for a file is the variable `backend`, chosen in the  *)
(*     initial state among the scripts of a universe and fixed from then   *)
(*     on (a deterministic backend).                                       *)
(***************************************************************************)
EXTENDS Integers, Sequences, FiniteSets, TLC

VARIABLES
    env,            \* os.environ at import time: variable name -> value or "unset"
    MODEL_SIZE,     \* module constant, main.py:23
    DEVICE,         \* module constant, main.py:24
    COMPUTE_TYPE,   \* module constant, main.py:25
    model,          \* the global model handle, main.py:44: <<>> is None
    started,        \* the startup hook has completed
    files,          \* the paths that exist on the file system
    backend,        \* what the inference engine yields for each path
    op,             \* the handler that ran last
    request,        \* the TranscribeRequest of the last /transcribe call
    pre,            \* what that call found: startup done, handle loaded, file present
    response,       \* the HTTP response of the last request
    events,         \* what the last handler did, in order: log lines, engine calls
    probe           \* an earlier /transcribe call kept for comparison, or <<>>

vars == <<env, MODEL_SIZE, DEVICE, COMPUTE_TYPE, model, started, files, backend,
          op, request, pre, response, events, probe>>

None == "None"

-----------------------------------------------------------------------------
(* Bounds of the model.                                                    *)

\* the longest segment sequence a script of the segment and text universes yields
MaxSegments == 2
\* the longest word list of a segment in the segment universe
MaxWords == 2

-----------------------------------------------------------------------------
(* Python built-ins the handler uses.                                      *)

Whitespace == {" ", "\t"}

RECURSIVE lstrip(_)
lstrip(s) ==
    IF s # <<>> /\ Head(s) \in Whitespace THEN lstrip(Tail(s)) ELSE s

RECURSIVE rstrip(_)
rstrip(s) ==
    IF s # <<>> /\ s[Len(s)] \in Whitespace
    THEN rstrip(SubSeq(s, 1, Len(s) - 1))
    ELSE s

\* str.strip(): leading and trailing whitespace removed, inner whitespace kept
strip(s) == rstrip(lstrip(s))

\* " ".join(parts)
RECURSIVE join_no_separator(_)
join_no_separator(parts) ==
    IF parts = <<>> THEN <<>> ELSE Head(parts) \o join_no_separator(Tail(parts))

RECURSIVE join(_)
join(parts) ==
    IF parts = <<>> THEN <<>>
    ELSE IF Len(parts) = 1 THEN Head(parts)
    ELSE Head(parts) \o <<" ">> \o join(Tail(parts))

\* round-half-even of x to a multiple of `unit` ticks (x \div unit rounds down)
RoundTo(x, unit) ==
    LET q == x \div unit
        r == x % unit
    IN  IF 2 * r < unit THEN q * unit
        ELSE IF 2 * r > unit THEN (q + 1) * unit
        ELSE IF q % 2 = 0 THEN q * unit ELSE (q + 1) * unit

\* round(x, 3): to the millisecond, 10 ticks
round3_identity(x) == x
round3(x) == RoundTo(x, 10)

\* f"{x:.2f}": to the hundredth of a second, 100 ticks
format2f(x) == RoundTo(x, 100)

-----------------------------------------------------------------------------
(* Configuration, main.py:22-25.                                           *)

EnvNames == {"WHISPER_MODEL_SIZE", "WHISPER_DEVICE", "WHISPER_COMPUTE_TYPE"}

\* os.environ.get(name, default)
environ_get(e, name, default) == IF e[name] = "unset" THEN default ELSE e[name]

\* the environments the process is started in
DefaultEnv == [n \in EnvNames |-> "unset"]

Environments ==
    { DefaultEnv,
      [n \in EnvNames |-> IF n = "WHISPER_DEVICE" THEN "cuda" ELSE "unset"],
      [n \in EnvNames |->
          CASE n = "WHISPER_MODEL_SIZE" -> "small"
            [] n = "WHISPER_DEVICE" -> "cuda"
            [] OTHER -> "float16"] }

\* WhisperModel(MODEL_SIZE, device=DEVICE, compute_type=COMPUTE_TYPE)
WhisperModel(size, device, compute_type) ==
    [model_size |-> size, device |-> device, compute_type |-> compute_type]

-----------------------------------------------------------------------------
(* Requests.                                                               *)

Paths == {"a.wav", "b.wav"}

\* TranscribeRequest.language: Optional[str], default "en"
Languages == {"en", None}

TranscribeRequest == [audio_path : Paths, language : Languages]

NoRequest == [audio_path |-> None, language |-> None]

-----------------------------------------------------------------------------
(* What the handlers do besides answering: log lines and engine calls.     *)

LogLine(level, text, args) ==
    [ev |-> "log", level |-> level, text |-> text, args |-> args]

EngineCall(name, text) ==
    [ev |-> name, level |-> "", text |-> text, args |-> <<>>]

-----------------------------------------------------------------------------
(* Responses.                                                              *)

\* raise HTTPException(status_code=code, detail=detail)
HTTPException(code, detail) == [status_code |-> code, detail |-> detail]

Ok(body) == [status_code |-> 200, body |-> body]

NoResponse == [status_code |-> 0, detail |-> <<>>]

-----------------------------------------------------------------------------
(* The engine's side of model.transcribe(), main.py:120-125.               *)
(*                                                                         *)
(* A script is what the engine does for one file:                          *)
(*   raises  <<>>, or <<msg>> when the call itself raises;                 *)
(*   items   what the segment generator does at each next(): an item of    *)
(*           kind "segment" is yielded, an item of kind "raise" is an      *)
(*           exception raised from the generator;                          *)
(*   info    the summary: the detected language (None when the engine      *)
(*           reports none) and the duration.                               *)

RawWord(w, s, e, p) == [word |-> w, start |-> s, end |-> e, probability |-> p]

\* words is <<>> for None and <<list>> for a list
RawSegment(id, text, s, e, words) ==
    [kind |-> "segment", msg |-> "", id |-> id, text |-> text,
     start |-> s, end |-> e, words |-> words]

RaiseItem(msg) ==
    [kind |-> "raise", msg |-> msg, id |-> 0, text |-> <<>>,
     start |-> 0, end |-> 0, words |-> <<>>]

Script(raises, items, language, duration) ==
    [raises |-> raises, items |-> items,
     info |-> [language |-> language, duration |-> duration]]

\* model.transcribe(path, language=language, word_timestamps=True, vad_filter=True):
\* the engine's script for the file; a language given by the caller is the
\* language the summary reports
model_transcribe(b, path, language) ==
    LET s == b[path]
    IN  [s EXCEPT !.info.language = IF language = None THEN @ ELSE language]

-----------------------------------------------------------------------------
(* The reshaping of the engine's output, main.py:127-165.                  *)

\* WordTiming(word=word.word.strip(), start=round(word.start, 3), ...), main.py:137-142
WordTiming(word) ==
    [word |-> strip(word.word),
     start |-> round3(word.start),
     end |-> round3(word.end),
     probability |-> round3(word.probability)]

\* the inner loop, main.py:136-144
RECURSIVE collect_words_drops_first(_, _, _)
collect_words_drops_first(words, segment_words, all_words) ==
    IF words = <<>>
    THEN [segment_words |-> segment_words, all_words |-> all_words]
    ELSE LET word_timing == WordTiming(Head(words))
         IN  collect_words_drops_first(
                 Tail(words),
                 Append(segment_words, word_timing),
                 IF segment_words = <<>> /\ all_words # <<>>
                 THEN all_words ELSE Append(all_words, word_timing))

RECURSIVE collect_words(_, _, _)
collect_words(words, segment_words, all_words) ==
    IF words = <<>>
    THEN [segment_words |-> segment_words, all_words |-> all_words]
    ELSE LET word_timing == WordTiming(Head(words))
         IN  collect_words(Tail(words),
                           Append(segment_words, word_timing),
                           Append(all_words, word_timing))

\* `if segment.words:` is false for None and for an empty list
Truthy(words) == words # <<>> /\ words[1] # <<>>

\* SegmentTiming(id=segment.id, text=segment.text.strip(), ...), main.py:146-152
SegmentTiming(segment, segment_words) ==
    [id |-> segment.id,
     text |-> strip(segment.text),
     start |-> round3(segment.start),
     end |-> round3(segment.end),
     words |-> segment_words]

\* the accumulators before the loop, main.py:128-130
EmptyAccumulators(evs) ==
    [raised |-> <<>>, segments |-> <<>>, all_words |-> <<>>,
     full_text_parts |-> <<>>, events |-> evs]

\* `for segment in segments_generator:`, main.py:132-153; stops at the first
\* exception the generator raises, which leaves the loop with `raised` set
RECURSIVE consume_segments(_, _)
consume_segments(items, acc) ==
    IF items = <<>>
    THEN [acc EXCEPT !.events = Append(@, EngineCall("exhausted", <<>>))]
    ELSE IF Head(items).kind = "raise"
    THEN [acc EXCEPT !.raised = <<Head(items).msg>>,
                     !.events = Append(@, EngineCall("generator raised", <<>>))]
    ELSE LET segment == Head(items)
             w == IF Truthy(segment.words)
                  THEN collect_words(segment.words[1], <<>>, acc.all_words)
                  ELSE [segment_words |-> <<>>, all_words |-> acc.all_words]
         IN  consume_segments(
                 Tail(items),
                 [raised |-> <<>>,
                  segments |-> Append(acc.segments,
                                      SegmentTiming(segment, w.segment_words)),
                  all_words |-> w.all_words,
                  full_text_parts |-> Append(acc.full_text_parts,
                                             strip(segment.text)),
                  events |-> Append(acc.events, EngineCall("segment", <<>>))])

\* TranscribeResponse(text=..., language=info.language, ...), main.py:159-165;
\* `language: str` (main.py:73) refuses None with a validation error
ValidationError == "ValidationError: language"

build_response(full_text, info, segments, all_words) ==
    IF info.language = None
    THEN [raised |-> <<ValidationError>>, value |-> NoResponse]
    ELSE [raised |-> <<>>,
          value |-> Ok([text |-> full_text,
                        language |-> info.language,
                        duration |-> round3(info.duration),
                        segments |-> segments,
                        words |-> all_words])]

\* except Exception as e: logger.error(...); raise HTTPException(500, str(e)),
\* main.py:167-169
internal_error_partial(msg, acc, info) ==
    [response |-> Ok([text |-> join(acc.full_text_parts),
                      language |-> "en",
                      duration |-> round3(info.duration),
                      segments |-> acc.segments,
                      words |-> acc.all_words]),
     events |-> Append(acc.events,
                       LogLine("error", <<"Transcription failed: ", msg>>, <<>>))]

internal_error_silent(msg, acc, info) ==
    [response |-> HTTPException(500, <<msg>>), events |-> acc.events]

internal_error(msg, acc, info) ==
    [response |-> HTTPException(500, <<msg>>),
     events |-> Append(acc.events,
                       LogLine("error", <<"Transcription failed: ", msg>>, <<>>))]

\* the try block, main.py:116-169, entered once both checks have passed
transcribe_body(b, req) ==
    LET script == model_transcribe(b, req.audio_path, req.language)
        begun == << LogLine("info", <<"Transcribing: ", req.audio_path>>, <<>>),
                      EngineCall("model.transcribe",
                                 <<req.audio_path, req.language>>) >>
        acc == consume_segments(script.items, EmptyAccumulators(begun))
        full_text == join(acc.full_text_parts)
        completed == Append(acc.events,
                            LogLine("info",
                                    <<"Transcription complete: ", " words, ", "s">>,
                                    <<Len(acc.all_words),
                                      format2f(script.info.duration)>>))
        built == build_response(full_text, script.info, acc.segments, acc.all_words)
    IN  IF script.raises # <<>>
        THEN internal_error(script.raises[1], EmptyAccumulators(begun), script.info)
        ELSE IF acc.raised # <<>>
        THEN internal_error(acc.raised[1], acc, script.info)
        ELSE IF built.raised # <<>>
        THEN internal_error(built.raised[1],
                            [acc EXCEPT !.events = completed], script.info)
        ELSE [response |-> built.value, events |-> completed]

\* the handler of POST /transcribe, main.py:99-169
transcribe_file_checked_first(m, fs, b, req) ==
    IF req.audio_path \notin fs
    THEN [response |-> HTTPException(404, <<"Audio file not found: ", req.audio_path>>),
          events |-> <<>>]
    ELSE IF m = <<>>
    THEN [response |-> HTTPException(503, <<"Model not loaded">>), events |-> <<>>]
    ELSE transcribe_body(b, req)

transcribe_handler(m, fs, b, req) ==
    IF m = <<>>
    THEN [response |-> HTTPException(503, <<"Model not loaded">>), events |-> <<>>]
    ELSE IF req.audio_path \notin fs
    THEN [response |-> HTTPException(404, <<"Audio file not found: ", req.audio_path>>),
          events |-> <<>>]
    ELSE transcribe_body(b, req)

\* the handler of GET /health, main.py:88-96
health_swaps_fields(size, device, compute_type) ==
    Ok([status |-> "healthy", model |-> size, device |-> compute_type,
        compute_type |-> device])

health_handler(size, device, compute_type) ==
    Ok([status |-> "healthy", model |-> size, device |-> device,
        compute_type |-> compute_type])

-----------------------------------------------------------------------------
(* The scripts the engine is taken from.                                   *)

Letters == <<"a", "b", "c", "d", "e", "f">>

\* the j-th raw word of segment i: its own text (with the leading blank the
\* engine puts before a word) and its own times
NthWord(i, j) ==
    RawWord(<<" ", Letters[i], Letters[j]>>,
            10000 * i + 1000 * j + 4, 10000 * i + 1000 * j + 506, 9000 + i * 10 + j)

\* segment i with k words; k = -1 is a segment without word detail (None)
NthSegment(i, k) ==
    RawSegment(i - 1, <<" ", Letters[i], " ">>, 10000 * i, 10000 * i + 9999,
               IF k < 0 THEN <<>> ELSE << [j \in 1..k |-> NthWord(i, j)] >>)

\* segment universe: every shape of up to MaxSegments segments of up to
\* MaxWords words each, with and without word detail
SegmentScripts ==
    UNION { { Script(<<>>, [i \in 1..n |-> NthSegment(i, ks[i])], "en",
                     10000 * n + 12345) :
              ks \in [1..n -> (0 - 1)..MaxWords] } : n \in 0..MaxSegments }

RawTexts ==
    { <<" ", "h", "i">>, <<"y", "o", " ", "\t">>, <<" ", "a", " ", "b", " ">>, <<" ">> }

\* text universe: up to MaxSegments segments, each with one of the raw texts
TextScripts ==
    UNION { { Script(<<>>,
                     [i \in 1..n |-> RawSegment(i - 1, ts[i], 0, 10, <<>>)],
                     "en", 20) :
              ts \in [1..n -> RawTexts] } : n \in 0..MaxSegments }

\* raw times, in ticks: an exact millisecond, a tie that rounds down, a tie
\* that rounds up, a time between two milliseconds
RawTimes == { 0, 5, 15, 24 }

RawProbabilities == { 4445, 9995 }

\* timing universe: one segment with one word, every pair of raw times, in
\* either order
TimingScripts ==
    { Script(<<>>,
             << RawSegment(0, <<"a">>, s, e, << << RawWord(<<"a">>, s, e, p) >> >>) >>,
             "en", e + 3) :
        s \in RawTimes, e \in RawTimes, p \in RawProbabilities }

\* service universe: the ways a call can go
OkScript ==
    Script(<<>>, << NthSegment(1, 2), NthSegment(2, -1) >>, "en", 31234)

ServiceScripts ==
    { OkScript,
      Script(<<>>, <<>>, "en", 0),
      Script(<<"decode error">>, <<>>, "en", 0),
      Script(<<>>, << RaiseItem("engine error") >>, "en", 31234),
      Script(<<>>, << NthSegment(1, 1), RaiseItem("engine error") >>, "en", 31234),
      Script(<<>>, << NthSegment(1, 1) >>, None, 15555) }

-----------------------------------------------------------------------------
(* The state machine.                                                      *)

NotCalled == [started |-> FALSE, loaded |-> FALSE, exists |-> FALSE]

\* what a /transcribe call for `path` finds
Found(path) ==
    [started |-> started, loaded |-> model # <<>>, exists |-> path \in files]

\* the process after import of main.py and before the startup hook
InitWith(envs, scripts_a, scripts_b) ==
    /\ env \in envs
    /\ MODEL_SIZE = environ_get(env, "WHISPER_MODEL_SIZE", "base")
    /\ DEVICE = environ_get(env, "WHISPER_DEVICE", "cpu")
    /\ COMPUTE_TYPE = environ_get(env, "WHISPER_COMPUTE_TYPE", "int8")
    /\ model = <<>>
    /\ started = FALSE
    /\ files \in SUBSET Paths
    /\ \E sa \in scripts_a, sb \in scripts_b :
           backend = [p \in Paths |-> IF p = "a.wav" THEN sa ELSE sb]
    /\ op = "import"
    /\ request = NoRequest
    /\ pre = NotCalled
    /\ response = NoResponse
    /\ events = <<>>
    /\ probe = <<>>

Init == InitWith(Environments, ServiceScripts, {OkScript, Script(<<"decode error">>, <<>>, "en", 0)})

InitSegments == InitWith({DefaultEnv}, SegmentScripts, {OkScript})

InitText == InitWith({DefaultEnv}, TextScripts, {OkScript})

InitTiming == InitWith({DefaultEnv}, TimingScripts, {OkScript})

\* the startup hook, main.py:79-85
load_model_binds_local ==
    /\ ~started
    /\ started' = TRUE
    /\ op' = "load_model"
    /\ events' = << LogLine("info", <<"Loading Whisper model: ", MODEL_SIZE, " on ",
                                     DEVICE, " with ", COMPUTE_TYPE>>, <<>>),
                    EngineCall("WhisperModel", <<MODEL_SIZE, DEVICE, COMPUTE_TYPE>>),
                    LogLine("info", <<"Model loaded successfully">>, <<>>) >>
    /\ UNCHANGED <<env, MODEL_SIZE, DEVICE, COMPUTE_TYPE, model, files, backend,
                   request, pre, response, probe>>

load_model ==
    /\ ~started
    /\ model' = << WhisperModel(MODEL_SIZE, DEVICE, COMPUTE_TYPE) >>
    /\ started' = TRUE
    /\ op' = "load_model"
    /\ events' = << LogLine("info", <<"Loading Whisper model: ", MODEL_SIZE, " on ",
                                     DEVICE, " with ", COMPUTE_TYPE>>, <<>>),
                    EngineCall("WhisperModel", <<MODEL_SIZE, DEVICE, COMPUTE_TYPE>>),
                    LogLine("info", <<"Model loaded successfully">>, <<>>) >>
    /\ UNCHANGED <<env, MODEL_SIZE, DEVICE, COMPUTE_TYPE, files, backend,
                   request, pre, response, probe>>

\* GET /health, main.py:88-96
health_check ==
    /\ op' = "health_check"
    /\ response' = health_handler(MODEL_SIZE, DEVICE, COMPUTE_TYPE)
    /\ events' = <<>>
    /\ UNCHANGED <<env, MODEL_SIZE, DEVICE, COMPUTE_TYPE, model, started, files,
                   backend, request, pre, probe>>

\* the comparison call: the first call chosen to be kept is kept for good, and
\* what came after it is noted on it: "none", then "served" once a later call
\* was served, then "failed" once a later call failed
Observe(req, found, resp) ==
    IF probe = <<>>
    THEN probe' \in { <<>>,
                      << [request |-> req, pre |-> found, response |-> resp,
                          since |-> "none"] >> }
    ELSE probe' = << [probe[1] EXCEPT !.since =
                         IF resp.status_code >= 400 THEN "failed"
                         ELSE IF @ = "none" THEN "served" ELSE @] >>

\* POST /transcribe, main.py:99-169
transcribe_cached_by_path(req) ==
    LET found == Found(req.audio_path)
        r == transcribe_handler(model, files, backend, req)
        resp == IF op = "transcribe" /\ request.audio_path = req.audio_path
                THEN response ELSE r.response
    IN  /\ op' = "transcribe"
        /\ request' = req
        /\ pre' = found
        /\ response' = resp
        /\ events' = r.events
        /\ Observe(req, found, resp)
        /\ UNCHANGED <<env, MODEL_SIZE, DEVICE, COMPUTE_TYPE, model, started, files,
                       backend>>

transcribe_drops_handle(req) ==
    LET found == Found(req.audio_path)
        r == transcribe_handler(model, files, backend, req)
    IN  /\ op' = "transcribe"
        /\ request' = req
        /\ pre' = found
        /\ response' = r.response
        /\ events' = r.events
        /\ Observe(req, found, r.response)
        /\ model' = IF r.response.status_code = 500 THEN <<>> ELSE model
        /\ UNCHANGED <<env, MODEL_SIZE, DEVICE, COMPUTE_TYPE, started, files, backend>>

transcribe(req) ==
    LET found == Found(req.audio_path)
        r == transcribe_handler(model, files, backend, req)
    IN  /\ op' = "transcribe"
        /\ request' = req
        /\ pre' = found
        /\ response' = r.response
        /\ events' = r.events
        /\ Observe(req, found, r.response)
        /\ UNCHANGED <<env, MODEL_SIZE, DEVICE, COMPUTE_TYPE, model, started, files,
                       backend>>

\* the environment: a file appears or disappears; the handler reads the file
\* system at main.py:112-113
file_change(path) ==
    /\ files' = IF path \in files THEN files \ {path} ELSE files \cup {path}
    /\ UNCHANGED <<env, MODEL_SIZE, DEVICE, COMPUTE_TYPE, model, started, backend,
                   op, request, pre, response, events, probe>>

Next ==
    \/ load_model
    \/ health_check
    \/ \E req \in TranscribeRequest : transcribe(req)
    \/ \E path \in Paths : file_change(path)

Spec == Init /\ [][Next]_vars

SpecSegments == InitSegments /\ [][Next]_vars

SpecText == InitText /\ [][Next]_vars

SpecTiming == InitTiming /\ [][Next]_vars

-----------------------------------------------------------------------------
(* What the properties below speak of.                                     *)

IsTranscribe == op = "transcribe"

Succeeded == IsTranscribe /\ response.status_code = 200

\* the last call passed both precondition checks
Admitted == IsTranscribe /\ pre.loaded /\ pre.exists

\* what the engine does for the last request
TheScript == model_transcribe(backend, request.audio_path, request.language)

RaisingItems(script) ==
    { i \in 1..Len(script.items) : script.items[i].kind = "raise" }

\* the script runs to its end and its summary builds a response
Completes(script) ==
    /\ script.raises = <<>>
    /\ RaisingItems(script) = {}
    /\ script.info.language # None

\* the description of the first exception a script that does not complete raises
FirstError(script) ==
    IF script.raises # <<>> THEN script.raises[1]
    ELSE IF RaisingItems(script) # {}
    THEN script.items[CHOOSE i \in RaisingItems(script) :
                          \A k \in RaisingItems(script) : i <= k].msg
    ELSE "ValidationError: language"

EventsNamed(name) == { i \in 1..Len(events) : events[i].ev = name }

LogLines(level) ==
    { i \in 1..Len(events) : events[i].ev = "log" /\ events[i].level = level }

MatchesProbe ==
    /\ IsTranscribe
    /\ probe # <<>>
    /\ probe[1].request = request
    /\ probe[1].pre = pre

Abs(x) == IF x < 0 THEN 0 - x ELSE x

-----------------------------------------------------------------------------
(* C1: the flattened word list is the per-segment word lists, in order.    *)

RECURSIVE FlattenWords(_)
FlattenWords(segments) ==
    IF segments = <<>> THEN <<>>
    ELSE Head(segments).words \o FlattenWords(Tail(segments))

RECURSIVE WordCount(_, _)
\* the number of words of the first n segments
WordCount(segments, n) ==
    IF n = 0 THEN 0 ELSE WordCount(segments, n - 1) + Len(segments[n].words)

RawWordCount(segment) ==
    IF segment.words = <<>> THEN 0 ELSE Len(segment.words[1])

\* C1: in every successful response there is one segment per yielded segment,
\* with one word per raw word (none for a segment without word detail), and
\* `words` is the concatenation of the segments' word lists in segment order
\* and word order: its length is the sum of their lengths and word j of
\* segment i stands, identical, at position (words of segments before i) + j.
C1_WordsAreConcatenation ==
    Succeeded =>
        LET body == response.body
            raw == TheScript.items
        IN  /\ Len(body.segments) = Len(raw)
            /\ \A i \in 1..Len(raw) :
                   Len(body.segments[i].words) = RawWordCount(raw[i])
            /\ body.words = FlattenWords(body.segments)
            /\ Len(body.words) = WordCount(body.segments, Len(body.segments))
            /\ \A i \in 1..Len(body.segments) :
                   \A j \in 1..Len(body.segments[i].words) :
                       body.words[WordCount(body.segments, i - 1) + j]
                           = body.segments[i].words[j]

\* a response of two segments: the first without word detail, the second
\* with two words
C1_Witness ==
    /\ Succeeded
    /\ Len(response.body.segments) = 2
    /\ TheScript.items[1].words = <<>>
    /\ Len(response.body.segments[2].words) = 2
    /\ Len(response.body.words) = 2

-----------------------------------------------------------------------------
(* C2: the precondition checks and their order.                            *)

\* C2: a /transcribe call that finds the handle not initialized fails with
\* 503 whether or not the file exists; it fails with 404 exactly when the
\* handle is initialized and the file does not exist, and the 404 detail
\* contains the path given; in neither case is the engine invoked.
C2_PreconditionOrder ==
    IsTranscribe =>
        /\ ~pre.loaded => response.status_code = 503
        /\ (pre.loaded /\ ~pre.exists) <=> response.status_code = 404
        /\ response.status_code = 503 => ~pre.loaded
        /\ response.status_code = 404 =>
               \E i \in 1..Len(response.detail) :
                   response.detail[i] = request.audio_path
        /\ response.status_code \in {503, 404} =>
               EventsNamed("model.transcribe") = {}

\* a 404 for a missing file, after a 503 for a call that found neither the
\* handle nor the file
C2_Witness ==
    /\ IsTranscribe
    /\ response.status_code = 404
    /\ probe # <<>>
    /\ probe[1].response.status_code = 503
    /\ ~probe[1].pre.exists

-----------------------------------------------------------------------------
(* C3: before and after startup.                                           *)

\* C3 as claimed: before startup has completed /transcribe answers 503, and
\* once it has completed a request on an existing file answers 200.
C3_AsClaimed ==
    IsTranscribe =>
        /\ ~pre.started => response.status_code = 503
        /\ (pre.started /\ pre.exists) => response.status_code = 200

\* C3 amended: before startup has completed /transcribe answers 503; once it
\* has completed, a request on an existing file never answers 503 or 404: it
\* answers 200 when the engine and the response assembly raise nothing, and
\* 500 otherwise.
C3_StartupGates ==
    IsTranscribe =>
        /\ ~pre.started => response.status_code = 503
        /\ (pre.started /\ pre.exists) =>
               /\ response.status_code \in {200, 500}
               /\ response.status_code = 200 <=> Completes(TheScript)

\* the same request on an existing file: 503 before startup, 200 after
C3_Witness ==
    /\ IsTranscribe
    /\ probe # <<>>
    /\ probe[1].request = request
    /\ probe[1].pre = [started |-> FALSE, loaded |-> FALSE, exists |-> TRUE]
    /\ probe[1].response.status_code = 503
    /\ pre = [started |-> TRUE, loaded |-> TRUE, exists |-> TRUE]
    /\ response.status_code = 200

-----------------------------------------------------------------------------
(* C4: failures after the checks.                                          *)

\* C4: when a call has passed both checks and the engine call, the segment
\* generator (after any number of segments) or the response assembly raises,
\* the response is a 500 whose detail is the exception's description and
\* nothing else (no text, segments or words), and the engine was invoked once.
C4_AllOrNothing ==
    (Admitted /\ ~Completes(TheScript)) =>
        /\ response = [status_code |-> 500, detail |-> <<FirstError(TheScript)>>]
        /\ DOMAIN response = {"status_code", "detail"}
        /\ Cardinality(EventsNamed("model.transcribe")) = 1

\* a 500 for a generator that raised after a segment had been collected
C4_Witness ==
    /\ Admitted
    /\ response.status_code = 500
    /\ EventsNamed("segment") # {}
    /\ EventsNamed("generator raised") # {}

-----------------------------------------------------------------------------
(* C5: the full text.                                                      *)

\* t is raw without its leading and trailing whitespace
IsStripOf(t, raw) ==
    \E i \in 0..Len(raw) : \E j \in i..Len(raw) :
        /\ t = SubSeq(raw, i + 1, j)
        /\ \A k \in 1..i : raw[k] \in Whitespace
        /\ \A k \in (j + 1)..Len(raw) : raw[k] \in Whitespace
        /\ t # <<>> => (t[1] \notin Whitespace /\ t[Len(t)] \notin Whitespace)

RECURSIVE PartOffset(_, _)
\* where part n starts in the parts joined by one separator each
PartOffset(parts, n) ==
    IF n = 1 THEN 0 ELSE PartOffset(parts, n - 1) + Len(parts[n - 1]) + 1

\* text is the parts in order with exactly one space between neighbours
IsSpaceJoinOf(text, parts) ==
    IF parts = <<>> THEN text = <<>>
    ELSE /\ Len(text) = PartOffset(parts, Len(parts)) + Len(parts[Len(parts)])
         /\ \A n \in 1..Len(parts) :
                /\ SubSeq(text, PartOffset(parts, n) + 1,
                          PartOffset(parts, n) + Len(parts[n])) = parts[n]
                /\ n > 1 => text[PartOffset(parts, n)] = " "

\* C5: in every successful response `text` is the stripped texts of the
\* yielded segments, one per segment and in yield order, joined by single
\* spaces, and it is the same join of the `text` fields of `segments`.
C5_TextIsSpaceJoin ==
    Succeeded =>
        LET body == response.body
            raw == TheScript.items
            texts == [i \in 1..Len(body.segments) |-> body.segments[i].text]
        IN  /\ Len(body.segments) = Len(raw)
            /\ \A i \in 1..Len(raw) : IsStripOf(texts[i], raw[i].text)
            /\ IsSpaceJoinOf(body.text, texts)

\* two segments without word detail, the first with an inner blank kept and
\* the second stripped at its end
C5_Witness ==
    /\ Succeeded
    /\ Len(response.body.segments) = 2
    /\ TheScript.items[1].words = <<>>
    /\ response.body.segments[1].text = <<"a", " ", "b">>
    /\ TheScript.items[2].text = <<"y", "o", " ", "\t">>
    /\ response.body.text = <<"a", " ", "b", " ", "y", "o">>

-----------------------------------------------------------------------------
(* C6: /health and the configuration.                                      *)

\* C6: in every reachable state the configuration is the one read from the
\* environment at process start, and a /health response is 200 with status
\* "healthy" and those model, device and compute_type values.
C6_HealthReportsConfiguration ==
    /\ MODEL_SIZE = environ_get(env, "WHISPER_MODEL_SIZE", "base")
    /\ DEVICE = environ_get(env, "WHISPER_DEVICE", "cpu")
    /\ COMPUTE_TYPE = environ_get(env, "WHISPER_COMPUTE_TYPE", "int8")
    /\ op = "health_check" =>
           /\ response.status_code = 200
           /\ response.body = [status |-> "healthy",
                               model |-> environ_get(env, "WHISPER_MODEL_SIZE", "base"),
                               device |-> environ_get(env, "WHISPER_DEVICE", "cpu"),
                               compute_type |->
                                   environ_get(env, "WHISPER_COMPUTE_TYPE", "int8")]

\* a /health response after startup and after served and failed /transcribe
\* calls, in a process configured through the environment
C6_Witness ==
    /\ op = "health_check"
    /\ started
    /\ probe # <<>>
    /\ probe[1].since = "failed"
    /\ response.body.device = "cuda"
    /\ response.body.compute_type = "float16"

-----------------------------------------------------------------------------
(* C7: timing values.                                                      *)

\* v is raw rounded to the millisecond
IsRounded3(v, raw) == v % 10 = 0 /\ Abs(v - raw) <= 5

Ordered(t) == 0 <= t.start /\ t.start <= t.end

\* the timings of a successful response, each with the raw value it comes from
Timings ==
    LET body == response.body
        raw == TheScript.items
    IN  { <<body.segments[i], raw[i]>> : i \in 1..Len(body.segments) }
        \cup UNION { { <<body.segments[i].words[j], raw[i].words[1][j]>> :
                         j \in 1..Len(body.segments[i].words) } :
                     i \in 1..Len(body.segments) }

-----------------------------------------------------------------------------
(* C8: the same call again.                                                *)

\* C8: a /transcribe call with the request of an earlier call, finding the
\* handle and the file as the earlier call found them, gets the response the
\* earlier call got, whatever was served in between.
C8_SameCallSameResponse ==
    MatchesProbe => response = probe[1].response

\* a served call repeated after other calls were served
C8_Witness ==
    /\ MatchesProbe
    /\ probe[1].since = "served"
    /\ response.status_code = 200
    /\ response.body.words # <<>>

-----------------------------------------------------------------------------
(* C9: the model handle.                                                   *)

\* C9: only the startup hook writes the model handle; once startup has
\* completed the handle is the loaded model in every state, whatever requests
\* succeeded or failed; and a call repeated after a failed call gets the
\* response it got before the failure.
C9_HandleWrittenByStartupOnly ==
    /\ [][model' # model => op' = "load_model"]_vars
    /\ [](started => model = << WhisperModel(MODEL_SIZE, DEVICE, COMPUTE_TYPE) >>)
    /\ []((MatchesProbe /\ probe[1].since = "failed") =>
              response = probe[1].response)

\* a served call repeated after a call that failed with 500
C9_Witness ==
    /\ MatchesProbe
    /\ probe[1].since = "failed"
    /\ response.status_code = 200
    /\ model # <<>>
    /\ backend["b.wav"].raises # <<>>
    /\ request.audio_path = "a.wav"
    /\ "b.wav" \in files

-----------------------------------------------------------------------------
(* C10: log lines.                                                         *)

IsStartLog(e) ==
    e = LogLine("info", <<"Transcribing: ", request.audio_path>>, <<>>)

IsCompletionLog(e) ==
    /\ e.ev = "log"
    /\ e.level = "info"
    /\ e.text[1] = "Transcription complete: "

\* C10 as claimed: every /transcribe call first logs the path; a successful one
\* logs the completion last; every failing one logs an error.
C10_AsClaimed ==
    IsTranscribe =>
        /\ events # <<>>
        /\ IsStartLog(events[1])
        /\ response.status_code = 200 => IsCompletionLog(events[Len(events)])
        /\ response.status_code >= 400 => LogLines("error") # {}

\* C10 amended: a /transcribe call rejected with 503 or 404 logs nothing. A
\* call that passed both checks logs the path first, before the engine is
\* invoked. When it succeeds, its only other log line is the last thing it
\* does, right after the generator is exhausted: the completion line with the
\* number of words of the response and the duration to 2 decimals. When it
\* fails with 500 the last thing it does is log one error line with the
\* exception's description.
C10_LogLines ==
    IsTranscribe =>
        /\ response.status_code \in {503, 404} => events = <<>>
        /\ response.status_code \in {200, 500} =>
               /\ Len(events) >= 2
               /\ IsStartLog(events[1])
               /\ events[2].ev = "model.transcribe"
        /\ response.status_code = 200 =>
               LET n == Len(events)
               IN  /\ IsCompletionLog(events[n])
                   /\ events[n].args = << Len(response.body.words),
                                          RoundTo(TheScript.info.duration, 100) >>
                   /\ events[n - 1].ev = "exhausted"
                   /\ Cardinality(EventsNamed("segment")) = Len(response.body.segments)
                   /\ LogLines("info") = {1, n}
                   /\ LogLines("error") = {}
        /\ response.status_code = 500 =>
               /\ LogLines("error") = {Len(events)}
               /\ events[Len(events)].text =
                      <<"Transcription failed: ", response.detail[1]>>

\* a successful call: the start line, the engine call, two segments, the end
\* of the generator, the completion line
C10_Witness ==
    /\ Succeeded
    /\ Len(events) = 6
    /\ IsCompletionLog(events[6])
    /\ events[6].args = <<2, 31200>>

=============================================================================
